---------------------------- MODULE Spec2Model ----------------------------
(***************************************************************************)
(* Model of package environ (src/environ.go, src/fake.go): binding of an   *)
(* environment of string key/value pairs onto the fields of a struct,      *)
(* driven by `environ:"KEY,option,..."` struct tags, and the redacted       *)
(* rendering of such a struct.                                             *)
(*                                                                         *)
(* A Go string is a sequence of one-character strings.  A struct type is a *)
(* sequence of field descriptors [name, tag, kind, elem], elem being the   *)
(* struct type a pointer field refers to; a struct value is the sequence   *)
(* of its fields' values, in declaration order, and a pointer the record   *)
(* [nil, rec] of whether it is nil and of the struct it refers to.         *)
(***************************************************************************)
EXTENDS Integers, Sequences, FiniteSets

VARIABLES
    typ,      \* the struct type of the record passed as `into`
    env,      \* the lookupenv argument: [kind, vals]
    into,     \* the record `into` points to (mutated in place)
    pre,      \* the record as it was when the call was made
    err,      \* the error returned by UnmarshalEnvironment
    lookups,  \* the calls made to lookupenv: <<field name, key>>, in order
    pc,       \* "ready", then "returned" | "fatal" | "panic"
    es,       \* ToString: the record rendered
    es2,      \* ToString: a second record of the same type
    out,      \* ToString(es)
    out2,     \* ToString(es2)
    tag,      \* parseStateVar: the text of the environ tag
    sv        \* parseStateVar: the StateVar returned

vars == <<typ, env, into, pre, err, lookups, pc, es, es2, out, out2, tag, sv>>

----------------------------------------------------------------------------
(* Bounds of the model.                                                    *)

\* the number of fields of the struct types bound by UnmarshalEnvironment
MaxFields == 2
\* the number of fields of the struct types rendered by ToString
MaxRenderFields == 2
\* the number of pieces a tag text handed to parseStateVar is built from
MaxPieces == 4

----------------------------------------------------------------------------
(* Strings.                                                                *)

structRunnerTagsSeparator == ","

Digits == <<"0", "1", "2", "3", "4", "5", "6", "7", "8", "9">>

IsDigit(c) == \E i \in 1..10 : Digits[i] = c

DigitVal(c) == (CHOOSE i \in 1..10 : Digits[i] = c) - 1

\* the index of the first occurrence of the character sep in s, 0 if none
IndexOf(s, sep) ==
    LET hits == { i \in 1..Len(s) : s[i] = sep }
    IN  IF hits = {} THEN 0 ELSE CHOOSE i \in hits : \A j \in hits : i <= j

RECURSIVE Split(_, _)
\* strings.Split(s, sep) for a one-character sep: the substrings between the
\* separators; a string without separator (the empty one too) gives <<s>>
Split(s, sep) ==
    LET i == IndexOf(s, sep)
    IN  IF i = 0
        THEN <<s>>
        ELSE <<SubSeq(s, 1, i - 1)>> \o Split(SubSeq(s, i + 1, Len(s)), sep)

RECURSIVE Join(_, _)
\* the strings of ss with sep between them
Join(ss, sep) ==
    IF ss = <<>> THEN <<>>
    ELSE IF Len(ss) = 1 THEN ss[1]
    ELSE ss[1] \o sep \o Join(Tail(ss), sep)

----------------------------------------------------------------------------
(* Errors.  The nil error and the *strconv.NumError values.                *)

NilErr == [fn |-> "", num |-> <<>>, msg |-> "nil"]

NumError(fn, num) == [fn |-> fn, num |-> num, msg |-> "invalid syntax"]

----------------------------------------------------------------------------
(* strconv.                                                                *)

TrueLiterals ==
    { <<"1">>, <<"t">>, <<"T">>, <<"T", "R", "U", "E">>,
      <<"t", "r", "u", "e">>, <<"T", "r", "u", "e">> }

FalseLiterals ==
    { <<"0">>, <<"f">>, <<"F">>, <<"F", "A", "L", "S", "E">>,
      <<"f", "a", "l", "s", "e">>, <<"F", "a", "l", "s", "e">> }

\* strconv.ParseBool: [val, err]; val is false when err is not nil
ParseBool(str) ==
    IF str \in TrueLiterals THEN [val |-> TRUE, err |-> NilErr]
    ELSE IF str \in FalseLiterals THEN [val |-> FALSE, err |-> NilErr]
    ELSE [val |-> FALSE, err |-> NumError("ParseBool", str)]

RECURSIVE DecimalValue(_)
\* the value of a non-empty string of digits
DecimalValue(ds) ==
    IF Len(ds) = 0 THEN 0
    ELSE 10 * DecimalValue(SubSeq(ds, 1, Len(ds) - 1)) + DigitVal(ds[Len(ds)])

\* Atoi with the sign dropped: the digits' value for a negative number
AtoiNoSign(s) ==
    LET signed == Len(s) > 0 /\ s[1] \in {"-", "+"}
        ds     == IF signed THEN Tail(s) ELSE s
    IN  IF Len(ds) = 0 \/ \E i \in 1..Len(ds) : ~IsDigit(ds[i])
        THEN [val |-> 0, err |-> NumError("Atoi", s)]
        ELSE [val |-> DecimalValue(ds), err |-> NilErr]

\* strconv.Atoi: [val, err]; an optional sign and at least one digit, base
\* 10; val is 0 on a syntax error.  (The values of the model lie within the
\* range of int, so no range error arises.)
Atoi(s) ==
    LET signed == Len(s) > 0 /\ s[1] \in {"-", "+"}
        ds     == IF signed THEN Tail(s) ELSE s
    IN  IF Len(ds) = 0 \/ \E i \in 1..Len(ds) : ~IsDigit(ds[i])
        THEN [val |-> 0, err |-> NumError("Atoi", s)]
        ELSE [val |-> IF signed /\ s[1] = "-"
                      THEN 0 - DecimalValue(ds)
                      ELSE DecimalValue(ds),
              err |-> NilErr]

RECURSIVE Itoa(_)
\* the base-10 text of an integer, as fmt renders it with %v
Itoa(n) ==
    IF n < 0 THEN <<"-">> \o Itoa(0 - n)
    ELSE IF n < 10 THEN <<Digits[n + 1]>>
    ELSE Itoa(n \div 10) \o <<Digits[(n % 10) + 1]>>

----------------------------------------------------------------------------
(* Struct tags.                                                            *)

RECURSIVE applyOptions(_, _)
\* the loop of parseStateVar over parts[1:]: the switch on each option
applyOptions(opts, s) ==
    IF opts = <<>> THEN s
    ELSE LET v == Head(opts)
             s1 == IF v = <<"r", "e", "d", "a", "c", "t">>
                   THEN [s EXCEPT !.Redact = TRUE]
                   ELSE IF v = <<"a", "n", "y", "v", "a", "l", "t", "r", "u", "e">>
                   THEN [s EXCEPT !.AnyValTrue = TRUE]
                   ELSE s
         IN  applyOptions(Tail(opts), s1)

\* parseStateVar with the loop over parts instead of parts[1:]
parseStateVarAllParts(t) ==
    LET parts == Split(t, ",")
    IN  applyOptions(parts,
                     [EnvironmentVariable |-> parts[1],
                      Redact |-> FALSE,
                      AnyValTrue |-> FALSE])

\* parseStateVar, given t.Get("environ"): the text of the environ tag, which
\* is empty for a field that has no environ tag
parseStateVar(t) ==
    LET parts == Split(t, ",")
    IN  applyOptions(Tail(parts),
                     [EnvironmentVariable |-> parts[1],
                      Redact |-> FALSE,
                      AnyValTrue |-> FALSE])

----------------------------------------------------------------------------
(* Lookup functions (src/fake.go).  A LookupEnvironmentFunc is modelled by *)
(* [kind, vals]: kind "fake" is FakeLookupEnv(vals), vals a Go map; kind   *)
(* "empty" is FakeEmptyEnvironment().  A lookup returns [val, isset].      *)

UnsetEnvPlaceholder == <<"U", "N", "S", "E", "T", "!">>

\* f.vals[k]: the zero value "" for a key the map does not hold
MapGet(vals, k) == IF k \in DOMAIN vals THEN vals[k] ELSE <<>>

\* fakeEnv.lookupEnv
lookupEnv(f, k) ==
    IF MapGet(f.vals, k) = UnsetEnvPlaceholder
    THEN [val |-> <<>>, isset |-> FALSE]
    ELSE [val |-> MapGet(f.vals, k), isset |-> TRUE]

\* the function FakeEmptyEnvironment returns
FakeEmptyEnvironment(k) == [val |-> <<>>, isset |-> FALSE]

\* the call lookupenv(k)
Lookup(lookupenv, k) ==
    IF lookupenv.kind = "fake" THEN lookupEnv(lookupenv, k)
    ELSE FakeEmptyEnvironment(k)

----------------------------------------------------------------------------
(* UnmarshalEnvironment.  The conversions return [val, err]: the value the *)
(* field holds afterwards and the value the variable err holds afterwards. *)

\* the bool case without the anyvaltrue branch
SetBoolParsedOnly(stv, eval, old, e) ==
    IF Len(eval) = 0 THEN [val |-> FALSE, err |-> e]
    ELSE [val |-> ParseBool(eval).val, err |-> ParseBool(eval).err]

\* case t.Kind() == reflect.Bool
SetBool(stv, eval, old, e) ==
    IF stv.AnyValTrue THEN [val |-> TRUE, err |-> e]
    ELSE IF Len(eval) = 0 THEN [val |-> FALSE, err |-> e]
    ELSE [val |-> ParseBool(eval).val, err |-> ParseBool(eval).err]

\* case t.Kind() == reflect.String
SetString(stv, eval, old, e) == [val |-> eval, err |-> e]

\* the []string case without the test of the value's length
SetSliceAlways(stv, eval, old, e) ==
    [val |-> Split(eval, structRunnerTagsSeparator), err |-> e]

\* case t == reflect.SliceOf(reflect.TypeOf(""))
SetSlice(stv, eval, old, e) ==
    IF Len(eval) # 0
    THEN [val |-> Split(eval, structRunnerTagsSeparator), err |-> e]
    ELSE [val |-> old, err |-> e]

\* case t.Kind() == reflect.Int
SetInt(stv, eval, old, e) ==
    IF Len(eval) = 0 THEN [val |-> 0, err |-> e]
    ELSE [val |-> Atoi(eval).val, err |-> Atoi(eval).err]

\* the switch on the field's type, entered when the variable is set:
\* [val, err, status]; "panic" and "fatal" end the program
Convert(f, stv, eval, old, e) ==
    LET r == CASE f.kind = "bool"     -> SetBool(stv, eval, old, e)
               [] f.kind = "string"   -> SetString(stv, eval, old, e)
               [] f.kind = "[]string" -> SetSlice(stv, eval, old, e)
               [] f.kind = "int"      -> SetInt(stv, eval, old, e)
               [] OTHER               -> [val |-> old, err |-> e]
    IN  [val |-> r.val, err |-> r.err,
         status |-> CASE f.kind \in {"bool", "string", "[]string", "int"} -> "returned"
                      [] f.kind = "struct" -> "panic"
                      [] OTHER -> "fatal"]

\* the switch entered whether or not lookupenv reports the variable set
BindIgnoringIsset(f, stv, got, old, e) == Convert(f, stv, got.val, old, e)

\* lines 101-141: the switch when lookupenv reports the variable set, and
\* nothing but a trace line when it does not
Bind(f, stv, got, old, e) ==
    IF got.isset
    THEN Convert(f, stv, got.val, old, e)
    ELSE [val |-> old, err |-> e, status |-> "returned"]

\* what a call that returns at once gives: fmt.Errorf("Decode of nil %s")
DecodeNilErr == [fn |-> "UnmarshalEnvironment", num |-> <<>>, msg |-> "Decode of nil"]

\* the error the recursive call's result leaves in the caller's err: the
\* call's result is dropped
AfterRecursion(e, nested) == e

RECURSIVE UnmarshalEnvironment(_, _, _)
RECURSIVE Walk(_, _, _, _, _, _)

\* the loop of UnmarshalEnvironment from field i on, over the struct rec of
\* type st, with e the variable err and lk the lookups made so far:
\* [rec, err, lookups, status]
Walk(lookupenv, st, rec, i, e, lk) ==
    IF i > Len(st) THEN [rec |-> rec, err |-> e, lookups |-> lk, status |-> "returned"]
    ELSE
    LET svf    == st[i]
        stv    == parseStateVar(svf.tag)
        isPtr  == svf.kind = "ptr"
        nested == IF isPtr
                  THEN UnmarshalEnvironment(lookupenv, svf.elem, rec[i])
                  ELSE [rec |-> rec[i], err |-> NilErr, lookups |-> <<>>,
                        status |-> "returned"]
        rec1   == [rec EXCEPT ![i] = nested.rec]
        e1     == IF isPtr THEN AfterRecursion(e, nested.err) ELSE e
        lk1    == lk \o nested.lookups
        got    == Lookup(lookupenv, stv.EnvironmentVariable)
        lk2    == lk1 \o << <<svf.name, stv.EnvironmentVariable>> >>
        c      == Bind(svf, stv, got, rec1[i], e1)
    IN  IF nested.status # "returned"
        THEN [rec |-> rec1, err |-> e1, lookups |-> lk1, status |-> nested.status]
        ELSE IF c.status # "returned"
        THEN [rec |-> rec1, err |-> e1, lookups |-> lk2, status |-> c.status]
        ELSE Walk(lookupenv, st, [rec1 EXCEPT ![i] = c.val], i + 1, c.err, lk2)

\* UnmarshalEnvironment(lookupenv, p), p a pointer [nil, rec] to a struct
\* of type st: [rec, err, lookups, status], rec being the pointer afterwards
UnmarshalEnvironment(lookupenv, st, p) ==
    IF p.nil
    THEN [rec |-> p, err |-> DecodeNilErr, lookups |-> <<>>, status |-> "returned"]
    ELSE LET w == Walk(lookupenv, st, p.rec, 1, NilErr, <<>>)
         IN  [rec |-> [nil |-> FALSE, rec |-> w.rec], err |-> w.err,
              lookups |-> w.lookups, status |-> w.status]

----------------------------------------------------------------------------
(* ToString.                                                               *)

Mask == <<"*", "*", "*", "*", "*", "*", "*", "*">>

\* strings.Repeat("*", len(val)): the mask the comment at line 158 gave up
RedactedByLength(val) == [i \in 1..Len(val) |-> "*"]

\* lines 159-164: what a redacted string field shows
Redacted(val) == IF Len(val) > 0 THEN Mask ELSE <<>>

RECURSIVE FormatV(_, _)
RECURSIVE FormatFields(_, _)

\* fmt's %v of the fields of a struct, a space between them
FormatFields(st, rec) ==
    IF st = <<>> THEN <<>>
    ELSE FormatV(Head(st), Head(rec))
         \o (IF Len(st) > 1 THEN <<" ">> ELSE <<>>)
         \o FormatFields(Tail(st), Tail(rec))

\* fmt.Sprintf("%v", val) for a value of field f's type
FormatV(f, val) ==
    CASE f.kind = "bool"     -> IF val THEN <<"t", "r", "u", "e">>
                                ELSE <<"f", "a", "l", "s", "e">>
      [] f.kind = "string"   -> val
      [] f.kind = "int"      -> Itoa(val)
      [] f.kind = "[]string" -> <<"[">> \o Join(val, <<" ">>) \o <<"]">>
      [] f.kind = "ptr"      ->
            IF val.nil THEN <<"<", "n", "i", "l", ">">>
            ELSE <<"&", "{">> \o FormatFields(f.elem, val.rec) \o <<"}">>

\* the value ToString prints for field svf: lines 154-166
Shown(svf, val) ==
    IF parseStateVar(svf.tag).Redact /\ svf.kind = "string"
    THEN Redacted(val)
    ELSE val

RECURSIVE WriteFields(_, _)
\* the loop of ToString: `Name:value ` for every field
WriteFields(st, rec) ==
    IF st = <<>> THEN <<>>
    ELSE Head(st).name \o <<":">> \o FormatV(Head(st), Shown(Head(st), Head(rec)))
         \o <<" ">> \o WriteFields(Tail(st), Tail(rec))

\* ToString(es), es a struct of type st
ToString(st, rec) == <<"{", " ">> \o WriteFields(st, rec) \o <<"}">>

----------------------------------------------------------------------------
(* The struct types and values of the model.                               *)

Field(name, t, kind, elem) == [name |-> name, tag |-> t, kind |-> kind, elem |-> elem]

\* type Inner struct { Flag bool `environ:"FLAG"` }
Inner == << Field(<<"F", "l", "a", "g">>, <<"F", "L", "A", "G">>, "bool", <<>>) >>

\* the fields of TestEnv (src/environ_test.go), a field without environ tag
\* and a field that points to a nested struct
Abc  == Field(<<"A", "b", "c">>, <<"A", "B", "C">>, "string", <<>>)
Def  == Field(<<"D", "e", "f">>,
              <<"D", "E", "F", ",", "r", "e", "d", "a", "c", "t">>, "string", <<>>)
Ghi  == Field(<<"G", "h", "i">>, <<"G", "H", "I">>, "bool", <<>>)
Jkl  == Field(<<"J", "k", "l">>,
              <<"J", "K", "L", ",", "a", "n", "y", "v", "a", "l", "t", "r", "u", "e">>,
              "bool", <<>>)
Mno  == Field(<<"M", "n", "o">>, <<"M", "N", "O">>, "int", <<>>)
Pqr  == Field(<<"P", "q", "r">>, <<"P", "Q", "R">>, "[]string", <<>>)
Note == Field(<<"N", "o", "t", "e">>, <<>>, "string", <<>>)
Sub  == Field(<<"S", "u", "b">>, <<"S", "U", "B">>, "ptr", Inner)

BindFields == {Abc, Ghi, Jkl, Mno, Pqr, Note, Sub}

\* the struct types of at most n fields taken from fs, no field twice
RECURSIVE StructTypes(_, _)
StructTypes(fs, n) ==
    IF n = 0 THEN {<<>>}
    ELSE {<<>>} \cup
         UNION { { <<f>> \o st : st \in StructTypes(fs \ {f}, n - 1) } : f \in fs }

Old == <<"o", "l", "d">>

RECURSIVE StructValues(_)
RECURSIVE FieldValues(_)

\* the values a field holds before a call
FieldValues(f) ==
    CASE f.kind = "bool"     -> {FALSE, TRUE}
      [] f.kind = "string"   -> {<<>>, Old}
      [] f.kind = "int"      -> {0, 7}
      [] f.kind = "[]string" -> {<<>>, <<Old>>}
      [] f.kind = "ptr"      ->
            {[nil |-> TRUE, rec |-> <<>>]} \cup
            {[nil |-> FALSE, rec |-> r] : r \in StructValues(f.elem)}

\* the values of struct type st
StructValues(st) ==
    IF st = <<>> THEN {<<>>}
    ELSE { <<v>> \o r : v \in FieldValues(Head(st)), r \in StructValues(Tail(st)) }

RECURSIVE KeysOf(_)
\* the keys UnmarshalEnvironment looks up for struct type st
KeysOf(st) ==
    IF st = <<>> THEN {}
    ELSE {parseStateVar(Head(st).tag).EnvironmentVariable}
         \cup (IF Head(st).kind = "ptr" THEN KeysOf(Head(st).elem) ELSE {})
         \cup KeysOf(Tail(st))

\* the values of the maps handed to FakeLookupEnv
MapValues ==
    { UnsetEnvPlaceholder,
      <<"t", "r", "u", "e">>,
      <<"-", "1", "2", "3", "4">>,
      <<"a", ",", "b", ",", "c">> }

\* the lookup functions over the keys ks: FakeLookupEnv of every map that
\* holds some of the keys, and FakeEmptyEnvironment
LookupFuncs(ks) ==
    { [kind |-> "fake", vals |-> m] : m \in UNION { [d -> MapValues] : d \in SUBSET ks } }
    \cup { [kind |-> "empty", vals |-> [k \in {} |-> <<>>]] }

----------------------------------------------------------------------------
(* The call UnmarshalEnvironment(env, &into).                              *)

NoSV == [EnvironmentVariable |-> <<>>, Redact |-> FALSE, AnyValTrue |-> FALSE]

Init ==
    /\ typ \in StructTypes(BindFields, MaxFields) \ {<<>>}
    /\ into \in StructValues(typ)
    /\ env \in LookupFuncs(KeysOf(typ))
    /\ pre = into
    /\ err = NilErr
    /\ lookups = <<>>
    /\ pc = "ready"
    /\ es = <<>> /\ es2 = <<>> /\ out = <<>> /\ out2 = <<>>
    /\ tag = <<>> /\ sv = NoSV

CallUnmarshalEnvironment ==
    /\ pc = "ready"
    /\ \E r \in {UnmarshalEnvironment(env, typ, [nil |-> FALSE, rec |-> into])} :
           /\ into' = r.rec.rec
           /\ err' = r.err
           /\ lookups' = r.lookups
           /\ pc' = r.status
    /\ UNCHANGED <<typ, env, pre, es, es2, out, out2, tag, sv>>

Next == CallUnmarshalEnvironment

Spec == Init /\ [][Next]_vars

----------------------------------------------------------------------------
(* What the properties of UnmarshalEnvironment speak of.                   *)

\* the fields the walk reaches: <<i>> is field i of the record, <<i, j>>
\* field j of the struct that pointer field i referred to before the call
Paths ==
    { <<i>> : i \in 1..Len(typ) }
    \cup UNION { { <<i, j>> : j \in 1..Len(typ[i].elem) }
                 : i \in { k \in 1..Len(typ) : typ[k].kind = "ptr" /\ ~pre[k].nil } }

TopPaths == { <<i>> : i \in 1..Len(typ) }

DescAt(p) == IF Len(p) = 1 THEN typ[p[1]] ELSE typ[p[1]].elem[p[2]]

ValAt(rec, p) == IF Len(p) = 1 THEN rec[p[1]] ELSE rec[p[1]].rec[p[2]]

\* the field at p holds what it held before the call (a pointer field: it
\* refers to what it referred to)
Kept(p) ==
    IF DescAt(p).kind = "ptr"
    THEN ValAt(into, p).nil = ValAt(pre, p).nil
    ELSE ValAt(into, p) = ValAt(pre, p)

KeyAt(p) == parseStateVar(DescAt(p).tag).EnvironmentVariable

\* what the lookup function reports for the key of the field at p
Present(p) == Lookup(env, KeyAt(p)).isset
Eval(p) == Lookup(env, KeyAt(p)).val

IsAnyValTrueBool(p) ==
    DescAt(p).kind = "bool" /\ parseStateVar(DescAt(p).tag).AnyValTrue

IsPlainBool(p) ==
    DescAt(p).kind = "bool" /\ ~parseStateVar(DescAt(p).tag).AnyValTrue

BoolLiterals == TrueLiterals \cup FalseLiterals

\* s is a base-10 integer: an optional sign, then digits
IsBase10(s) ==
    \E k \in 0..1 :
        /\ Len(s) > k
        /\ (k = 1 => s[1] \in {"-", "+"})
        /\ \A i \in (k + 1)..Len(s) : s[i] \in {"0", "1", "2", "3", "4", "5", "6", "7", "8", "9"}

\* s is the text Go prints for the integer it denotes: no "+", no leading
\* zero, no "-0"
IsCanonicalInt(s) ==
    /\ IsBase10(s)
    /\ s[1] # "+"
    /\ LET ds == IF s[1] = "-" THEN Tail(s) ELSE s
       IN  ds[1] = "0" => (Len(ds) = 1 /\ s[1] # "-")

\* the key of the field at p is present with a non-empty value that does
\* not parse for the field's type
Fails(p) ==
    /\ DescAt(p).kind \in {"bool", "int"}
    /\ Present(p)
    /\ Len(Eval(p)) > 0
    /\ \/ IsPlainBool(p) /\ Eval(p) \notin BoolLiterals
       \/ DescAt(p).kind = "int" /\ ~IsBase10(Eval(p))

\* the key of the field at p is present with a value that converts
Converts(p) ==
    /\ DescAt(p).kind \in {"bool", "string", "int", "[]string"}
    /\ Present(p)
    /\ ~Fails(p)

\* the error the conversion of the field at p gives when it fails
FailureOf(p) ==
    NumError(IF DescAt(p).kind = "bool" THEN "ParseBool" ELSE "Atoi", Eval(p))

\* lookupenv was called on behalf of the field at p
LookedUp(p) == \E n \in 1..Len(lookups) : lookups[n][1] = DescAt(p).name

----------------------------------------------------------------------------
(* C1.  A call of UnmarshalEnvironment with a non-nil pointer returns nil  *)
(* if and only if no field of the record failed to convert, and otherwise  *)
(* returns the error of the last failing field in declaration order,       *)
(* whatever the fields declared after that one do.                         *)
C1_LastErrorReturned ==
    pc = "returned" =>
        LET failing == { p \in TopPaths : Fails(p) }
        IN  IF failing = {}
            THEN err = NilErr
            ELSE LET last == CHOOSE p \in failing : \A q \in failing : q[1] <= p[1]
                 IN  err = FailureOf(last)

(* C2.  A field whose key is present with a non-empty value that fails to  *)
(* parse holds after the call what it held before the call.                *)
C2_FailedFieldUntouched ==
    pc = "returned" => \A p \in Paths : Fails(p) => Kept(p)

(* C3.  Every field whose key the lookup function reports as not present   *)
(* keeps its pre-call value; with FakeEmptyEnvironment the call returns    *)
(* nil and the whole record, nested records included, is unchanged.        *)
C3_AbsentKeysKeepFields ==
    pc # "ready" =>
        /\ \A p \in Paths : ~Present(p) => Kept(p)
        /\ env.kind = "empty" => (pc = "returned" /\ into = pre /\ err = NilErr)

C3_Witness ==
    /\ pc = "returned"
    /\ env.kind = "fake"
    /\ into # pre
    /\ \E p \in Paths : Len(p) = 2 /\ ~Present(p) /\ ValAt(pre, p) = TRUE

(* C4.  A bool field tagged anyvaltrue is true after the call when its key *)
(* is present, whatever the value, and contributes no error: the call      *)
(* returns a non-nil error only if some other field fails.  When its key   *)
(* is not present the field keeps its pre-call value.                      *)
C4_AnyValTrue ==
    pc = "returned" =>
        /\ \A p \in Paths :
              IsAnyValTrueBool(p) =>
                  IF Present(p) THEN ValAt(into, p) = TRUE ELSE Kept(p)
        /\ err = NilErr \/ \E p \in TopPaths : ~IsAnyValTrueBool(p) /\ Fails(p)

C4_Witness ==
    /\ pc = "returned"
    /\ err = NilErr
    /\ \E p \in Paths :
          /\ IsAnyValTrueBool(p)
          /\ Present(p)
          /\ Eval(p) = <<"a", ",", "b", ",", "c">>
          /\ ValAt(pre, p) = FALSE
          /\ ValAt(into, p) = TRUE

(* C5.  A field whose key is present with a convertible value holds the    *)
(* conversion of the value after the call, whatever it held before: a bool *)
(* without anyvaltrue false for the empty string and the literal's value   *)
(* for a boolean literal, an int 0 for the empty string and the signed     *)
(* base-10 value otherwise, a string the raw value; and the call returns   *)
(* nil when every present value is convertible (a non-nil error only if    *)
(* some field fails).                                                      *)
C5_ConvertedValueAssigned ==
    pc = "returned" =>
        /\ \A p \in Paths :
              Converts(p) =>
                  /\ IsPlainBool(p) =>
                        ValAt(into, p) = (Eval(p) \in TrueLiterals)
                  /\ DescAt(p).kind = "int" =>
                        /\ Len(Eval(p)) = 0 => ValAt(into, p) = 0
                        /\ IsCanonicalInt(Eval(p)) => Itoa(ValAt(into, p)) = Eval(p)
                  /\ DescAt(p).kind = "string" => ValAt(into, p) = Eval(p)
        /\ err = NilErr \/ \E p \in Paths : Fails(p)

C5_Witness ==
    /\ pc = "returned"
    /\ err = NilErr
    /\ \E p \in Paths :
          /\ DescAt(p).kind = "int"
          /\ Eval(p) = <<"-", "1", "2", "3", "4">>
          /\ ValAt(pre, p) = 7
          /\ ValAt(into, p) = 0 - 1234
    /\ \E p \in Paths :
          /\ IsPlainBool(p)
          /\ Eval(p) = <<>>
          /\ ValAt(pre, p) = TRUE
          /\ ValAt(into, p) = FALSE

(* C6.  A []string field whose key is present with a non-empty value holds *)
(* after the call the sequence of the value's parts between the commas,    *)
(* replacing what it held; present with the empty value, it keeps what it  *)
(* held.                                                                   *)
C6_SliceSplitOnComma ==
    pc = "returned" =>
        \A p \in Paths :
            (DescAt(p).kind = "[]string" /\ Present(p)) =>
                IF Len(Eval(p)) = 0
                THEN Kept(p)
                ELSE /\ Len(ValAt(into, p)) >= 1
                     /\ Join(ValAt(into, p), <<",">>) = Eval(p)
                     /\ \A n \in 1..Len(ValAt(into, p)) :
                           \A m \in 1..Len(ValAt(into, p)[n]) :
                               ValAt(into, p)[n][m] # ","

C6_Witness ==
    /\ pc = "returned"
    /\ \E p \in Paths :
          /\ DescAt(p).kind = "[]string"
          /\ Eval(p) = <<"a", ",", "b", ",", "c">>
          /\ ValAt(pre, p) = <<Old>>
          /\ ValAt(into, p) = << <<"a">>, <<"b">>, <<"c">> >>

(* C8.  UnmarshalEnvironment skips a field that has no environ tag: it     *)
(* makes no lookup call for it and leaves its value unchanged.             *)
C8_UntaggedFieldSkipped ==
    pc # "ready" =>
        \A p \in Paths : DescAt(p).tag = <<>> => (~LookedUp(p) /\ Kept(p))

(* C9.  When a pointer field refers to a nested record one of whose fields *)
(* fails to convert, and no field visited later fails, the call that       *)
(* completes the walk returns a non-nil error.                             *)
C9_NestedErrorSurfaced ==
    pc = "returned" =>
        \A p \in Paths :
            (/\ Len(p) = 2
             /\ Fails(p)
             /\ \A q \in TopPaths : q[1] >= p[1] => ~Fails(q))
            => err # NilErr

----------------------------------------------------------------------------
(* The call ToString(es), and the same call on a second record es2 of the  *)
(* same type, to compare what the two renderings disclose.                 *)

RenderFields == {Abc, Def, Ghi, Mno, Pqr, Sub}

Secretz == <<"s", "e", "c", "r", "e", "t", "z">>

\* the values a field of a rendered record holds
RenderValues(f) ==
    CASE f.kind = "string"   -> {<<>>, <<"p", "w">>, Secretz}
      [] f.kind = "int"      -> {0, 0 - 1234}
      [] f.kind = "[]string" -> {<<>>, << <<"a">>, <<"b">> >>}
      [] OTHER               -> FieldValues(f)

RECURSIVE RenderStructs(_)
RenderStructs(st) ==
    IF st = <<>> THEN {<<>>}
    ELSE { <<v>> \o r : v \in RenderValues(Head(st)), r \in RenderStructs(Tail(st)) }

InitToString ==
    /\ typ \in StructTypes(RenderFields, MaxRenderFields) \ {<<>>}
    /\ es \in RenderStructs(typ)
    /\ es2 \in RenderStructs(typ)
    /\ out = <<>> /\ out2 = <<>>
    /\ pc = "ready"
    /\ env = [kind |-> "empty", vals |-> [k \in {} |-> <<>>]]
    /\ into = <<>> /\ pre = <<>> /\ err = NilErr /\ lookups = <<>>
    /\ tag = <<>> /\ sv = NoSV

CallToString ==
    /\ pc = "ready"
    /\ out' = ToString(typ, es)
    /\ out2' = ToString(typ, es2)
    /\ pc' = "rendered"
    /\ UNCHANGED <<typ, env, into, pre, err, lookups, es, es2, tag, sv>>

NextToString == CallToString

SpecToString == InitToString /\ [][NextToString]_vars

IsRedactString(f) ==
    f.kind = "string"
    /\ \E n \in 1..Len(f.tag) :
          SubSeq(f.tag, n, Len(f.tag)) = <<",", "r", "e", "d", "a", "c", "t">>

\* the two records differ at most in the non-empty contents of their
\* redact-tagged string fields
SameButSecrets ==
    \A i \in 1..Len(typ) :
        IF IsRedactString(typ[i])
        THEN (Len(es[i]) = 0) <=> (Len(es2[i]) = 0)
        ELSE es[i] = es2[i]

RECURSIVE Listing(_, _)
\* the `Name:text ` listing in which a redact-tagged string field shows as
\* eight stars when it is not empty and as nothing when it is, and every
\* other field as its value
Listing(st, rec) ==
    IF st = <<>> THEN <<>>
    ELSE Head(st).name \o <<":">>
         \o (IF IsRedactString(Head(st))
             THEN (IF Head(rec) = <<>> THEN <<>>
                   ELSE <<"*", "*", "*", "*", "*", "*", "*", "*">>)
             ELSE FormatV(Head(st), Head(rec)))
         \o <<" ">> \o Listing(Tail(st), Tail(rec))

(* C7.  ToString shows a redact-tagged string field as ******** when it is *)
(* not empty and as the empty string when it is, and every other field as  *)
(* its value; so two records that differ only in the non-empty contents of *)
(* redact-tagged string fields render to the same string.                  *)
C7_RedactedRendering ==
    pc = "rendered" =>
        /\ out = <<"{", " ">> \o Listing(typ, es) \o <<"}">>
        /\ out2 = <<"{", " ">> \o Listing(typ, es2) \o <<"}">>
        /\ SameButSecrets => out = out2

C7_Witness ==
    /\ pc = "rendered"
    /\ SameButSecrets
    /\ out = out2
    /\ \E i \in 1..Len(typ) :
          /\ IsRedactString(typ[i])
          /\ es[i] = Secretz
          /\ es2[i] = <<"p", "w">>
    /\ \E i \in 1..Len(typ) : typ[i].kind = "string" /\ ~IsRedactString(typ[i]) /\ es[i] = Secretz

----------------------------------------------------------------------------
(* The call parseStateVar(t), t.Get("environ") being tag.                  *)

\* what the tag texts of the model are made of
Pieces ==
    { <<"K", "E", "Y">>,
      <<",">>,
      <<",", "r", "e", "d", "a", "c", "t">>,
      <<",", "a", "n", "y", "v", "a", "l", "t", "r", "u", "e">>,
      <<",", "R", "e", "d", "a", "c", "t">>,
      <<"r", "e", "d">>,
      <<"a", "c", "t">> }

RECURSIVE TagTexts(_)
\* the texts made of at most n pieces
TagTexts(n) ==
    IF n = 0 THEN {<<>>}
    ELSE {<<>>} \cup { p \o t : p \in Pieces, t \in TagTexts(n - 1) }

InitParse ==
    /\ tag \in TagTexts(MaxPieces)
    /\ sv = NoSV
    /\ pc = "ready"
    /\ typ = <<>>
    /\ env = [kind |-> "empty", vals |-> [k \in {} |-> <<>>]]
    /\ into = <<>> /\ pre = <<>> /\ err = NilErr /\ lookups = <<>>
    /\ es = <<>> /\ es2 = <<>> /\ out = <<>> /\ out2 = <<>>

CallParseStateVar ==
    /\ pc = "ready"
    /\ sv' = parseStateVar(tag)
    /\ pc' = "parsed"
    /\ UNCHANGED <<typ, env, into, pre, err, lookups, es, es2, out, out2, tag>>

NextParse == CallParseStateVar

SpecParse == InitParse /\ [][NextParse]_vars

\* the text before the first comma of t, all of t when it has none
KeyText(t) ==
    LET k == CHOOSE n \in 0..Len(t) :
                 /\ \A i \in 1..n : t[i] # ","
                 /\ (n < Len(t) => t[n + 1] = ",")
    IN  SubSeq(t, 1, k)

\* the set of the tokens of t after its first comma: the texts without
\* comma that lie between two commas, or between a comma and the end
OptionTokens(t) ==
    { SubSeq(t, a, b) : <<a, b>> \in
        { ab \in (2..(Len(t) + 1)) \X (1..Len(t)) :
            /\ ab[2] >= ab[1] - 1
            /\ t[ab[1] - 1] = ","
            /\ (ab[2] < Len(t) => t[ab[2] + 1] = ",")
            /\ \A i \in ab[1]..ab[2] : t[i] # "," } }

(* C10.  parseStateVar is defined on every tag text; the key is the text   *)
(* before the first comma; Redact is true iff some later token is exactly  *)
(* "redact" and AnyValTrue iff some later token is exactly "anyvaltrue":   *)
(* the options depend only on the set of the tokens, not on their order or *)
(* number, and other tokens change nothing.                                *)
C10_OptionsDependOnTokenSet ==
    pc = "parsed" =>
        /\ sv.EnvironmentVariable = KeyText(tag)
        /\ sv.Redact = (<<"r", "e", "d", "a", "c", "t">> \in OptionTokens(tag))
        /\ sv.AnyValTrue =
              (<<"a", "n", "y", "v", "a", "l", "t", "r", "u", "e">> \in OptionTokens(tag))

C10_Witness ==
    /\ pc = "parsed"
    /\ tag = <<"K", "E", "Y">>
             \o <<",", "a", "n", "y", "v", "a", "l", "t", "r", "u", "e">>
             \o <<",", "R", "e", "d", "a", "c", "t">>
             \o <<",", "r", "e", "d", "a", "c", "t">>
    /\ sv = [EnvironmentVariable |-> <<"K", "E", "Y">>, Redact |-> TRUE, AnyValTrue |-> TRUE]

============================================================================
